---- MODULE Spec2Model ----
(***************************************************************************)
(* Configuration of the analytics dashboard server.                        *)
(*                                                                         *)
(*   server-config.py  ClientConfig: per-client settings and the helpers   *)
(*                     derived from them                                   *)
(*   config.py         Config and its three profiles, get_config and the   *)
(*                     module-level AppConfig                              *)
(*                                                                         *)
(* Python values are represented as follows.  A str that the code only     *)
(* compares or copies (table ids, date fields, source keys) is a TLA+      *)
(* string.  A str that the code transforms (CLIENT_NAME, the FLASK_ENV     *)
(* value) is a sequence of one-character strings, so that lower(),         *)
(* replace() and concatenation are computed.  A list is a sequence.  A     *)
(* dict is a record [keys, at]: keys is the insertion order, at maps each  *)
(* key to its value.  None is the string None below, which is no element   *)
(* of any set of ids or keys used here.                                    *)
(***************************************************************************)
EXTENDS Integers, Sequences, FiniteSets, TLC

VARIABLES
    pc,               \* "template" | "deployed" | "start" | "running" | "raised"
    edits,            \* number of changes made to the settings so far
    loader,           \* what `from server_config import ClientConfig` does
    FLASK_ENV,        \* os.environ's FLASK_ENV: EnvUnset or EnvSet(a str)
    CLIENT_NAME,      \* ClientConfig.CLIENT_NAME
    TABLE_IDS,        \* ClientConfig.TABLE_IDS, a function on its keys
    ENABLED_SOURCES,  \* ClientConfig.ENABLED_SOURCES
    DISABLED_SOURCES, \* ClientConfig.DISABLED_SOURCES
    FRESH_TABLES,     \* Config.FRESH_TABLES
    AppConfig,        \* config.AppConfig
    ret               \* the value the last call returned, held by the caller

vars == <<pc, edits, loader, FLASK_ENV, CLIENT_NAME, TABLE_IDS, ENABLED_SOURCES,
          DISABLED_SOURCES, FRESH_TABLES, AppConfig, ret>>

clientVars == <<CLIENT_NAME, TABLE_IDS, ENABLED_SOURCES, DISABLED_SOURCES>>
configVars == <<FRESH_TABLES, AppConfig>>

----------------------------------------------------------------------------
(* Bounds *)

\* changes a customizer makes to the template before it is deployed
MaxEdits == 2
\* changes made by the running process after config.py was imported
MaxChanges == 1

----------------------------------------------------------------------------
(* Python values *)

None == "<None>"

\* bool(x) for x a str or None
Truthy(x) == x # None /\ x # ""

\* x in lst
InList(x, lst) == \E i \in 1..Len(lst) : lst[i] = x

\* d.get(k) for a dict held as a function on its keys
DictGet(d, k) == IF k \in DOMAIN d THEN d[k] ELSE None

EmptyDict == [keys |-> <<>>, at |-> <<>>]

\* d[k] = v on an insertion-ordered dict
DictSet(d, k, v) ==
    [keys |-> IF InList(k, d.keys) THEN d.keys ELSE Append(d.keys, k),
     at   |-> [x \in DOMAIN d.at \cup {k} |-> IF x = k THEN v ELSE d.at[x]]]

DictKeySet(d) == {d.keys[i] : i \in 1..Len(d.keys)}

UpperChars == <<"A","B","C","D","E","F","G","H","I","J","K","L","M",
                "N","O","P","Q","R","S","T","U","V","W","X","Y","Z">>
LowerChars == <<"a","b","c","d","e","f","g","h","i","j","k","l","m",
                "n","o","p","q","r","s","t","u","v","w","x","y","z">>

\* str.lower() on one character
LowerChar(c) ==
    IF \E i \in 1..Len(UpperChars) : UpperChars[i] = c
    THEN LowerChars[CHOOSE i \in 1..Len(UpperChars) : UpperChars[i] = c]
    ELSE c

\* str.lower()
Lower(s) == [i \in 1..Len(s) |-> LowerChar(s[i])]

\* str.replace(a, b) for one-character a and b
Replace(s, a, b) == [i \in 1..Len(s) |-> IF s[i] = a THEN b ELSE s[i]]

----------------------------------------------------------------------------
(* server-config.py: the template as shipped *)

TemplateClientName == <<"C","e","l","l","u","l","a","r"," ","Z","o","n","e">>
BUSINESS_NAME == <<"C","e","l","l","u","l","a","r"," ","Z","o","n","e">>
AIRTABLE_BASE_ID == "app9JgRBZC2GNlaKM"

GhlTableId == "tbl0Er1mMwZO1Pvfj"
GoogleAdsTableId == "tblIhvVihVoghHfVa"

TemplateTableIds ==
    [k \in {"ghl", "google_ads", "pos", "meta_ads", "meta_ads_simplified",
            "meta_ads_summary", "meta_ads_performance"} |->
        CASE k = "ghl"        -> GhlTableId
          [] k = "google_ads" -> GoogleAdsTableId
          [] OTHER            -> None]

TemplateEnabledSources == <<"ghl", "google_ads">>
TemplateDisabledSources == <<>>

\* The seven `if cls.is_enabled(...)` blocks of get_fresh_tables, in order:
\* the key, the text after CLIENT_NAME in 'name', and 'date_field'.
FreshTableBlocks == <<
    [key |-> "ghl", suffix |-> <<" ","G","H","L">>, date_field |-> "Date Created"],
    [key |-> "pos", suffix |-> <<" ","P","O","S">>, date_field |-> "Created"],
    [key |-> "google_ads",
     suffix |-> <<" ","G","o","o","g","l","e"," ","A","d","s">>,
     date_field |-> "Date"],
    [key |-> "meta_ads",
     suffix |-> <<" ","M","e","t","a"," ","A","d","s">>,
     date_field |-> "Reporting ends"],
    [key |-> "meta_ads_summary",
     suffix |-> <<" ","M","e","t","a"," ","A","d","s"," ","S","u","m","m","a","r","y">>,
     date_field |-> "Reporting ends"],
    [key |-> "meta_ads_simplified",
     suffix |-> <<" ","M","e","t","a"," ","A","d","s"," ",
                  "S","i","m","p","l","i","f","i","e","d">>,
     date_field |-> "period"],
    [key |-> "meta_ads_performance",
     suffix |-> <<" ","M","e","t","a"," ","A","d","s"," ",
                  "P","e","r","f","o","r","m","a","n","c","e">>,
     date_field |-> "Date"] >>

----------------------------------------------------------------------------
(* server-config.py: ClientConfig's class methods *)

\* is_enabled without the comparison with 'null'
is_enabled_without_null(data_source) ==
    /\ InList(data_source, ENABLED_SOURCES)
    /\ DictGet(TABLE_IDS, data_source) # None
    /\ DictGet(TABLE_IDS, data_source) # ""

is_enabled(data_source) ==
    /\ InList(data_source, ENABLED_SOURCES)
    /\ DictGet(TABLE_IDS, data_source) # None
    /\ DictGet(TABLE_IDS, data_source) # "null"
    /\ DictGet(TABLE_IDS, data_source) # ""

\* get_table_id that hands out the id of a listed source only
get_table_id_if_listed(data_source) ==
    LET table_id == DictGet(TABLE_IDS, data_source)
    IN  IF InList(data_source, ENABLED_SOURCES)
           /\ Truthy(table_id) /\ table_id # "null" /\ table_id # ""
        THEN table_id ELSE None

get_table_id(data_source) ==
    LET table_id == DictGet(TABLE_IDS, data_source)
    IN  IF Truthy(table_id) /\ table_id # "null" /\ table_id # ""
        THEN table_id ELSE None

get_base_id == AIRTABLE_BASE_ID

\* a block that asks for a table id and not for is_enabled
FreshTableBlockByTableId(fresh_tables, b) ==
    IF Truthy(DictGet(TABLE_IDS, b.key)) /\ DictGet(TABLE_IDS, b.key) # "null"
    THEN DictSet(fresh_tables, b.key,
                 [id             |-> TABLE_IDS[b.key],
                  name           |-> CLIENT_NAME \o b.suffix,
                  date_field     |-> b.date_field,
                  sort_direction |-> "desc"])
    ELSE fresh_tables

\* one `if cls.is_enabled(key): fresh_tables[key] = {...}` block
FreshTableBlock(fresh_tables, b) ==
    IF is_enabled(b.key)
    THEN DictSet(fresh_tables, b.key,
                 [id             |-> TABLE_IDS[b.key],
                  name           |-> CLIENT_NAME \o b.suffix,
                  date_field     |-> b.date_field,
                  sort_direction |-> "desc"])
    ELSE fresh_tables

RECURSIVE FreshTablesUpTo(_)
FreshTablesUpTo(n) ==
    IF n = 0 THEN EmptyDict
    ELSE FreshTableBlock(FreshTablesUpTo(n - 1), FreshTableBlocks[n])

get_fresh_tables == FreshTablesUpTo(Len(FreshTableBlocks))

\* A reference to a list object of ClientConfig: the returned record holds
\* the object itself, not a copy of it.
Ref(attr) == [ref |-> attr]

\* the frontend configuration with the tabs put through is_enabled
get_client_config_for_frontend_gated ==
    [client_info |->
        [client_id     |-> Replace(Lower(CLIENT_NAME), " ", "_"),
         business_name |-> BUSINESS_NAME],
     data_sources |->
        [enabled_sources  |-> Ref("ENABLED_SOURCES"),
         disabled_sources |-> Ref("DISABLED_SOURCES")],
     tab_configuration |->
        [enabled_tabs |-> <<"overview">> \o
                          SelectSeq(ENABLED_SOURCES, LAMBDA x : is_enabled(x)),
         default_tab  |-> "overview"],
     airtable_configuration |->
        [base_id |-> AIRTABLE_BASE_ID]]

get_client_config_for_frontend ==
    [client_info |->
        [client_id     |-> Replace(Lower(CLIENT_NAME), " ", "_"),
         business_name |-> BUSINESS_NAME],
     data_sources |->
        [enabled_sources  |-> Ref("ENABLED_SOURCES"),
         disabled_sources |-> Ref("DISABLED_SOURCES")],
     tab_configuration |->
        [enabled_tabs |-> <<"overview">> \o ENABLED_SOURCES,
         default_tab  |-> "overview"],
     airtable_configuration |->
        [base_id |-> AIRTABLE_BASE_ID]]

\* the list a reference of a returned record denotes
Deref(r) ==
    IF r.ref = "ENABLED_SOURCES" THEN ENABLED_SOURCES ELSE DISABLED_SOURCES

----------------------------------------------------------------------------
(* config.py: the class attributes of Config and of its three profiles *)

\* An environment variable is in os.environ with a value, or is not in it.
EnvUnset == [set |-> FALSE, value |-> <<>>]
EnvSet(v) == [set |-> TRUE, value |-> v]

\* os.getenv(name, default) on the variable's entry e
GetEnv(e, default) == IF e.set THEN e.value ELSE default

ConfigAttrs ==
    [CLAUDE_API_URL          |-> "https://api.anthropic.com/v1/messages",
     AIRTABLE_BASE_URL       |-> "https://api.airtable.com/v0",
     HOST                    |-> "127.0.0.1",
     PORT                    |-> 8000,
     CLAUDE_API_TIMEOUT      |-> 30,
     AIRTABLE_API_TIMEOUT    |-> 15,
     MAX_RECORDS_PER_REQUEST |-> 100,
     MAX_TOTAL_RECORDS       |-> 10000,
     MAX_PAGINATION_PAGES    |-> 50,
     LOG_LEVEL               |-> "INFO",
     LOG_FORMAT              |-> "%(asctime)s | %(levelname)-8s | %(name)s | %(message)s",
     LOG_DATE_FORMAT         |-> "%Y-%m-%d %H:%M:%S",
     LOG_FILE_MAX_BYTES      |-> 10 * 1024 * 1024,
     LOG_BACKUP_COUNT        |-> 5,
     CORS_ORIGINS            |-> <<"http://localhost:3000", "http://localhost:8000",
                                   "http://127.0.0.1:8000">>]

DevelopmentConfigAttrs ==
    [DEBUG      |-> TRUE,
     LOG_LEVEL  |-> "DEBUG",
     LOG_FORMAT |->
        "%(asctime)s | %(levelname)-8s | %(name)-15s | %(funcName)-20s | %(message)s"]

ProductionConfigAttrs ==
    [DEBUG             |-> FALSE,
     LOG_LEVEL         |-> "INFO",
     MAX_TOTAL_RECORDS |-> 5000,
     CORS_ORIGINS      |-> <<"http://localhost:8000", "http://127.0.0.1:8000">>]

TestConfigAttrs ==
    [DEBUG                |-> TRUE,
     LOG_LEVEL            |-> "WARNING",
     MAX_TOTAL_RECORDS    |-> 100,
     MAX_PAGINATION_PAGES |-> 5]

Profiles == {"DevelopmentConfig", "ProductionConfig", "TestConfig"}

\* the attributes a class statement defines itself
OwnAttrs(cls) ==
    CASE cls = "DevelopmentConfig" -> DevelopmentConfigAttrs
      [] cls = "ProductionConfig"  -> ProductionConfigAttrs
      [] cls = "TestConfig"        -> TestConfigAttrs
      [] OTHER                     -> ConfigAttrs

AttributeError == "<AttributeError>"

\* attribute lookup that asks Config before the profile
GetAttrBaseFirst(cls, name) ==
    IF name \in DOMAIN ConfigAttrs THEN ConfigAttrs[name]
    ELSE IF name \in DOMAIN OwnAttrs(cls) THEN OwnAttrs(cls)[name]
    ELSE AttributeError

\* cls.name for a profile class(Config): the class's own attribute, else Config's
GetAttr(cls, name) ==
    IF name \in DOMAIN OwnAttrs(cls) THEN OwnAttrs(cls)[name]
    ELSE IF name \in DOMAIN ConfigAttrs THEN ConfigAttrs[name]
    ELSE AttributeError

\* The `except ImportError` branch of Config's class body.
PlaceholderEntry(id, name, date_field) ==
    [id |-> id, name |-> name, date_field |-> date_field, sort_direction |-> "desc"]

PlaceholderTables ==
    [keys |-> <<"ghl", "pos", "meta_ads", "meta_ads_summary", "meta_ads_simplified",
                "google_ads">>,
     at   |-> [k \in {"ghl", "pos", "meta_ads", "meta_ads_summary",
                      "meta_ads_simplified", "google_ads"} |->
        CASE k = "ghl" ->
                PlaceholderEntry("CLIENT_GHL_TABLE_ID",
                    <<"C","L","I","E","N","T","_","N","A","M","E"," ","G","H","L">>,
                    "Date Created")
          [] k = "pos" ->
                PlaceholderEntry("CLIENT_POS_TABLE_ID",
                    <<"C","L","I","E","N","T","_","N","A","M","E"," ","P","O","S">>,
                    "Created")
          [] k = "meta_ads" ->
                PlaceholderEntry("CLIENT_META_ADS_TABLE_ID",
                    <<"C","L","I","E","N","T","_","N","A","M","E"," ",
                      "M","e","t","a"," ","A","d","s">>,
                    "Reporting ends")
          [] k = "meta_ads_summary" ->
                PlaceholderEntry("CLIENT_META_ADS_SUMMARY_TABLE_ID",
                    <<"C","L","I","E","N","T","_","N","A","M","E"," ",
                      "M","e","t","a"," ","A","d","s"," ","S","u","m","m","a","r","y">>,
                    "Reporting ends")
          [] k = "meta_ads_simplified" ->
                PlaceholderEntry("CLIENT_META_ADS_SIMPLIFIED_TABLE_ID",
                    <<"C","L","I","E","N","T","_","N","A","M","E"," ",
                      "M","e","t","a"," ","A","d","s"," ",
                      "S","i","m","p","l","i","f","i","e","d">>,
                    "period")
          [] k = "google_ads" ->
                PlaceholderEntry("CLIENT_GOOGLE_ADS_TABLE_ID",
                    <<"C","L","I","E","N","T","_","N","A","M","E"," ",
                      "G","o","o","g","l","e"," ","A","d","s">>,
                    "Date")]]

\* What `from server_config import ClientConfig` can do: bind the class, or
\* raise.  ModuleNotFoundError (no module of that name) is a subclass of
\* ImportError; ImportError itself is raised when the module has no name
\* ClientConfig; executing the module's body can raise anything else.
LoadOutcomes == {"loaded", "ModuleNotFoundError", "ImportError", "SyntaxError"}

IsImportError(exc) == exc \in {"ImportError", "ModuleNotFoundError"}

----------------------------------------------------------------------------
(* config.py: get_config, Config.get_table_config, Config.get_all_table_ids *)

EnvDefault == <<"p","r","o","d","u","c","t","i","o","n">>
EnvDevelopment == <<"d","e","v","e","l","o","p","m","e","n","t">>
EnvTesting == <<"t","e","s","t","i","n","g">>

\* get_config without .lower()
get_config_case_sensitive ==
    LET env == GetEnv(FLASK_ENV, EnvDefault)
    IN  IF env = EnvDevelopment THEN "DevelopmentConfig"
        ELSE IF env = EnvTesting THEN "TestConfig"
        ELSE "ProductionConfig"

get_config ==
    LET env == Lower(GetEnv(FLASK_ENV, EnvDefault))
    IN  IF env = EnvDevelopment THEN "DevelopmentConfig"
        ELSE IF env = EnvTesting THEN "TestConfig"
        ELSE "ProductionConfig"

\* What get_table_config hands back: the value (a dict, or None with the
\* none flag set) and which object it is.  alias is None for an object the
\* call built, else the key of the FRESH_TABLES entry that the returned dict
\* is.
Returned(v, a) == [val |-> v, none |-> FALSE, alias |-> a]
ReturnedNone == [val |-> None, none |-> TRUE, alias |-> None]

\* {**config, 'type': table_type, 'is_legacy': False}
WithType(config, table_type) ==
    [id             |-> config.id,
     name           |-> config.name,
     date_field     |-> config.date_field,
     sort_direction |-> config.sort_direction,
     type           |-> table_type,
     is_legacy      |-> FALSE]

\* matching on the key of an entry and not on its id
MatchesKey(table_id) ==
    {i \in 1..Len(FRESH_TABLES.keys) : FRESH_TABLES.keys[i] = table_id}

\* the positions of FRESH_TABLES.items() whose config has this id
Matches(table_id) ==
    {i \in 1..Len(FRESH_TABLES.keys) :
        FRESH_TABLES.at[FRESH_TABLES.keys[i]].id = table_id}

\* get_table_config that returns the entry of FRESH_TABLES itself
get_table_config_entry(table_id) ==
    IF Matches(table_id) = {} THEN ReturnedNone
    ELSE LET i == CHOOSE j \in Matches(table_id) :
                      \A m \in Matches(table_id) : j <= m
             table_type == FRESH_TABLES.keys[i]
         IN  Returned(FRESH_TABLES.at[table_type], table_type)

get_table_config(table_id) ==
    IF Matches(table_id) = {} THEN ReturnedNone
    ELSE LET i == CHOOSE j \in Matches(table_id) :
                      \A m \in Matches(table_id) : j <= m
             table_type == FRESH_TABLES.keys[i]
         IN  Returned(WithType(FRESH_TABLES.at[table_type], table_type), None)

get_all_table_ids ==
    [i \in 1..Len(FRESH_TABLES.keys) |-> FRESH_TABLES.at[FRESH_TABLES.keys[i]].id]

----------------------------------------------------------------------------
(* Inputs *)

SourceKeySet == {FreshTableBlocks[i].key : i \in 1..Len(FreshTableBlocks)}

\* a key that is none of the seven
OtherKey == "tiktok_ads"
AllKeys == SourceKeySet \cup {OtherKey}
\* the keys the methods of ClientConfig are called with
ArgKeys == IF pc = "running" THEN {"ghl", "pos", OtherKey} ELSE AllKeys

\* values a customizer writes into TABLE_IDS
CustomIds == {None, "", "null", GhlTableId, "tblCustom"}
\* values the running process writes into TABLE_IDS or into a returned value
RuntimeIds == {None, "tblCustom"}
IdChoices == IF pc = "template" THEN CustomIds ELSE RuntimeIds

ClientNames == {TemplateClientName, <<"A","c","m","e">>}

\* arguments given to get_table_config
TableIdArgs == {GhlTableId, "tblCustom", "CLIENT_POS_TABLE_ID", "ghl", None}

UpperChar(c) ==
    IF \E i \in 1..Len(LowerChars) : LowerChars[i] = c
    THEN UpperChars[CHOOSE i \in 1..Len(LowerChars) : LowerChars[i] = c]
    ELSE c

\* every spelling of the lower-case word w in upper and lower case
RECURSIVE Spellings(_, _)
Spellings(w, n) ==
    IF n = 0 THEN {<<>>}
    ELSE {Append(p, c) : p \in Spellings(w, n - 1), c \in {w[n], UpperChar(w[n])}}

AllSpellings(w) == Spellings(w, Len(w))

\* FLASK_ENV values that are no spelling of a profile's name
OtherEnvValues ==
    {<<>>, <<"d","e","v">>, <<"t","e","s","t">>, <<"s","t","a","g","i","n","g">>,
     <<"d","e","v","e","l","o","p","m","e","n","t"," ">>,
     <<" ","t","e","s","t","i","n","g">>,
     <<"d","e","v","e","l","o","p","m","e","n">>,
     <<"t","e","s","t","i","n","g","s">>}

EnvValues ==
    {EnvUnset} \cup
    {EnvSet(v) : v \in AllSpellings(EnvDevelopment) \cup AllSpellings(EnvTesting)
                       \cup AllSpellings(EnvDefault) \cup OtherEnvValues}

EnvFewValues ==
    {EnvUnset, EnvSet(EnvDevelopment), EnvSet(<<"T","E","S","T","I","N","G">>)}

AttrNames == {"DEBUG", "LOG_LEVEL", "MAX_TOTAL_RECORDS", "MAX_PAGINATION_PAGES",
              "MAX_RECORDS_PER_REQUEST", "CORS_ORIGINS", "LOG_BACKUP_COUNT"}

\* Customized copies of the template that a deployment starts from.
Deployment(name, ids, enabled) ==
    [CLIENT_NAME |-> name, TABLE_IDS |-> ids, ENABLED_SOURCES |-> enabled]

Deployments ==
    { \* the template as shipped
      Deployment(TemplateClientName, TemplateTableIds, TemplateEnabledSources),
      \* pos enabled on the table ghl uses
      Deployment(TemplateClientName,
                 [TemplateTableIds EXCEPT !["pos"] = GhlTableId],
                 <<"ghl", "pos", "google_ads">>),
      \* every source enabled, no source enabled
      Deployment(<<"A","c","m","e">>,
                 [k \in DOMAIN TemplateTableIds |-> "tbl_" \o k],
                 <<"meta_ads_performance", "meta_ads_simplified", "meta_ads_summary",
                   "meta_ads", "google_ads", "pos", "ghl">>),
      Deployment(<<"A","c","m","e">>, TemplateTableIds, <<>>) }

----------------------------------------------------------------------------
(* The value a caller holds *)

NoRet == [op |-> "none", arg |-> None, val |-> None, none |-> TRUE,
          alias |-> None, modified |-> FALSE]

\* the caller keeps what op(arg) returned; v is an object the call built
Hold(op, arg, v) ==
    [op |-> op, arg |-> arg, val |-> v, none |-> FALSE, alias |-> None,
     modified |-> FALSE]

\* the same for get_table_config, whose result r says which object it is
HoldReturned(op, arg, r) ==
    [op |-> op, arg |-> arg, val |-> r.val, none |-> r.none, alias |-> r.alias,
     modified |-> FALSE]

----------------------------------------------------------------------------
(* Changes to ClientConfig's settings and to the environment: by the       *)
(* customizer in the template, by the process once it runs.                *)

Budget ==
    CASE pc = "template" -> MaxEdits
      [] pc = "running"  -> MaxChanges
      [] OTHER           -> 0

CanChange == edits < Budget

\* TABLE_IDS[k] = v
SetTableId(k, v) ==
    /\ CanChange
    /\ IF k \in DOMAIN TABLE_IDS THEN TABLE_IDS[k] # v ELSE TRUE
    /\ TABLE_IDS' = [x \in DOMAIN TABLE_IDS \cup {k} |->
                        IF x = k THEN v ELSE TABLE_IDS[x]]
    /\ edits' = edits + 1
    /\ UNCHANGED <<pc, loader, FLASK_ENV, CLIENT_NAME, ENABLED_SOURCES,
                   DISABLED_SOURCES, FRESH_TABLES, AppConfig, ret>>

\* del TABLE_IDS[k]
DelTableId(k) ==
    /\ CanChange
    /\ k \in DOMAIN TABLE_IDS
    /\ TABLE_IDS' = [x \in DOMAIN TABLE_IDS \ {k} |-> TABLE_IDS[x]]
    /\ edits' = edits + 1
    /\ UNCHANGED <<pc, loader, FLASK_ENV, CLIENT_NAME, ENABLED_SOURCES,
                   DISABLED_SOURCES, FRESH_TABLES, AppConfig, ret>>

\* ENABLED_SOURCES.append(k)
AppendEnabled(k) ==
    /\ CanChange
    /\ ENABLED_SOURCES' = Append(ENABLED_SOURCES, k)
    /\ edits' = edits + 1
    /\ UNCHANGED <<pc, loader, FLASK_ENV, CLIENT_NAME, TABLE_IDS,
                   DISABLED_SOURCES, FRESH_TABLES, AppConfig, ret>>

\* del ENABLED_SOURCES[i - 1]
RemoveEnabled(i) ==
    /\ CanChange
    /\ i \in 1..Len(ENABLED_SOURCES)
    /\ ENABLED_SOURCES' = [j \in 1..(Len(ENABLED_SOURCES) - 1) |->
                              IF j < i THEN ENABLED_SOURCES[j]
                              ELSE ENABLED_SOURCES[j + 1]]
    /\ edits' = edits + 1
    /\ UNCHANGED <<pc, loader, FLASK_ENV, CLIENT_NAME, TABLE_IDS,
                   DISABLED_SOURCES, FRESH_TABLES, AppConfig, ret>>

\* CLIENT_NAME = n
SetClientName(n) ==
    /\ CanChange
    /\ n # CLIENT_NAME
    /\ CLIENT_NAME' = n
    /\ edits' = edits + 1
    /\ UNCHANGED <<pc, loader, FLASK_ENV, TABLE_IDS, ENABLED_SOURCES,
                   DISABLED_SOURCES, FRESH_TABLES, AppConfig, ret>>

\* os.environ['FLASK_ENV'] = v, or its removal, after config.py was imported
SetEnv(e) ==
    /\ pc = "running"
    /\ CanChange
    /\ e # FLASK_ENV
    /\ FLASK_ENV' = e
    /\ edits' = edits + 1
    /\ UNCHANGED <<pc, loader, clientVars, configVars, ret>>

\* the customizer is done: server-config.py is what the deployment runs with
FinishCustomize ==
    /\ pc = "template"
    /\ pc' = "deployed"
    /\ UNCHANGED <<edits, loader, FLASK_ENV, clientVars, configVars, ret>>

----------------------------------------------------------------------------
(* config.py is imported: Config's class body runs, then AppConfig is set *)

ImportConfig ==
    /\ pc = "start"
    /\ IF loader = "loaded"
       THEN /\ FRESH_TABLES' = get_fresh_tables
            /\ AppConfig' = get_config
            /\ pc' = "running"
       ELSE IF IsImportError(loader)
       THEN /\ FRESH_TABLES' = PlaceholderTables
            /\ AppConfig' = get_config
            /\ pc' = "running"
       ELSE \* the exception leaves the class body and the import of config
            /\ pc' = "raised"
            /\ UNCHANGED configVars
    /\ UNCHANGED <<edits, loader, FLASK_ENV, clientVars, ret>>

----------------------------------------------------------------------------
(* Calls *)

\* ClientConfig can be called where server-config.py is what is loaded
ClientCallable ==
    \/ pc = "deployed"
    \/ pc = "running" /\ loader = "loaded"

CallIsEnabled(s) ==
    /\ ClientCallable
    /\ ret' = Hold("is_enabled", s, is_enabled(s))
    /\ UNCHANGED <<pc, edits, loader, FLASK_ENV, clientVars, configVars>>

CallGetTableId(s) ==
    /\ ClientCallable
    /\ ret' = Hold("get_table_id", s, get_table_id(s))
    /\ UNCHANGED <<pc, edits, loader, FLASK_ENV, clientVars, configVars>>

CallGetBaseId ==
    /\ ClientCallable
    /\ ret' = Hold("get_base_id", None, get_base_id)
    /\ UNCHANGED <<pc, edits, loader, FLASK_ENV, clientVars, configVars>>

CallGetFreshTables ==
    /\ ClientCallable
    /\ ret' = Hold("get_fresh_tables", None, get_fresh_tables)
    /\ UNCHANGED <<pc, edits, loader, FLASK_ENV, clientVars, configVars>>

CallGetClientConfigForFrontend ==
    /\ ClientCallable
    /\ ret' = Hold("get_client_config_for_frontend", None,
                   get_client_config_for_frontend)
    /\ UNCHANGED <<pc, edits, loader, FLASK_ENV, clientVars, configVars>>

CallGetConfig ==
    /\ pc = "running"
    /\ ret' = Hold("get_config", FLASK_ENV, get_config)
    /\ UNCHANGED <<pc, edits, loader, FLASK_ENV, clientVars, configVars>>

\* AppConfig.<name>
ReadAttr(name) ==
    /\ pc = "running"
    /\ ret' = Hold("getattr", [cls |-> AppConfig, name |-> name],
                   GetAttr(AppConfig, name))
    /\ UNCHANGED <<pc, edits, loader, FLASK_ENV, clientVars, configVars>>

CallGetTableConfig(table_id) ==
    /\ pc = "running"
    /\ ret' = HoldReturned("get_table_config", table_id, get_table_config(table_id))
    /\ UNCHANGED <<pc, edits, loader, FLASK_ENV, clientVars, configVars>>

CallGetAllTableIds ==
    /\ pc = "running"
    /\ ret' = Hold("get_all_table_ids", None, get_all_table_ids)
    /\ UNCHANGED <<pc, edits, loader, FLASK_ENV, clientVars, configVars>>

----------------------------------------------------------------------------
(* The caller changes the object a call returned to it *)

\* what a caller writes into a list or dict it was handed
CallerValues == {"tblCustom", "pos"}

\*   id                get_table_config(...)['id'] = v
\*   append            get_all_table_ids().append(v)
\*   clear             get_fresh_tables().clear()
\*   enabled_tabs      ...['tab_configuration']['enabled_tabs'].append(v)
\*   enabled_sources   ...['data_sources']['enabled_sources'].append(v)
\*   disabled_sources  ...['data_sources']['disabled_sources'].append(v)
CallerParts == {"id", "append", "clear", "enabled_tabs", "enabled_sources",
                "disabled_sources"}

CallerModifies(part, v) ==
    /\ pc = "running"
    /\ CanChange
    /\ \/ ret.op = "get_table_config" /\ ~ret.none /\ part = "id"
       \/ ret.op = "get_all_table_ids" /\ part = "append"
       \/ ret.op = "get_fresh_tables" /\ part = "clear"
       \/ /\ ret.op = "get_client_config_for_frontend"
          /\ part \in {"enabled_tabs", "enabled_sources", "disabled_sources"}
    /\ ret' = [ret EXCEPT
                 !.modified = TRUE,
                 !.val = CASE part = "id"     -> [@ EXCEPT !.id = v]
                           [] part = "append" -> Append(@, v)
                           [] part = "clear"  -> EmptyDict
                           [] part = "enabled_tabs" ->
                                [@ EXCEPT !.tab_configuration.enabled_tabs =
                                              Append(@, v)]
                           [] OTHER           -> @]
    \* a dict that is an entry of FRESH_TABLES changes there as well
    /\ FRESH_TABLES' =
          IF part = "id" /\ ret.alias # None
          THEN [FRESH_TABLES EXCEPT !.at[ret.alias].id = v]
          ELSE FRESH_TABLES
    \* the two lists of data_sources are ClientConfig's own lists
    /\ ENABLED_SOURCES' =
          IF part = "enabled_sources" THEN Append(ENABLED_SOURCES, v)
          ELSE ENABLED_SOURCES
    /\ DISABLED_SOURCES' =
          IF part = "disabled_sources" THEN Append(DISABLED_SOURCES, v)
          ELSE DISABLED_SOURCES
    /\ edits' = edits + 1
    /\ UNCHANGED <<pc, loader, FLASK_ENV, CLIENT_NAME, TABLE_IDS, AppConfig>>

----------------------------------------------------------------------------
(* Specifications *)

NotImported == "<not imported>"

TemplateState ==
    /\ CLIENT_NAME = TemplateClientName
    /\ TABLE_IDS = TemplateTableIds
    /\ ENABLED_SOURCES = TemplateEnabledSources
    /\ DISABLED_SOURCES = TemplateDisabledSources

\* SpecClient: server-config.py is customized, then its methods are called.
InitClient ==
    /\ pc = "template"
    /\ edits = 0
    /\ loader = "loaded"
    /\ FLASK_ENV = EnvUnset
    /\ TemplateState
    /\ FRESH_TABLES = EmptyDict
    /\ AppConfig = NotImported
    /\ ret = NoRet

Customize ==
    \/ \E k \in SourceKeySet, v \in IdChoices : SetTableId(k, v)
    \/ \E k \in SourceKeySet : DelTableId(k)
    \/ \E k \in AllKeys : AppendEnabled(k)
    \/ \E i \in 1..Len(ENABLED_SOURCES) : RemoveEnabled(i)
    \/ \E n \in ClientNames : SetClientName(n)

ClientCalls ==
    \/ \E s \in ArgKeys : CallIsEnabled(s)
    \/ \E s \in ArgKeys : CallGetTableId(s)
    \/ CallGetBaseId
    \/ CallGetFreshTables
    \/ CallGetClientConfigForFrontend

NextClient ==
    \/ Customize
    \/ FinishCustomize
    \/ ClientCalls

SpecClient == InitClient /\ [][NextClient]_vars

\* SpecProfile: config.py is imported under some FLASK_ENV, then the selected
\* profile is read.
InitProfile ==
    /\ pc = "start"
    /\ edits = 0
    /\ loader \in {"loaded", "ModuleNotFoundError"}
    /\ FLASK_ENV \in EnvValues
    /\ TemplateState
    /\ FRESH_TABLES = EmptyDict
    /\ AppConfig = NotImported
    /\ ret = NoRet

NextProfile ==
    \/ ImportConfig
    \/ CallGetConfig
    \/ \E name \in AttrNames : ReadAttr(name)

SpecProfile == InitProfile /\ [][NextProfile]_vars

\* Spec: a deployment's process imports config.py and then runs: it calls the
\* operations, changes settings and the environment, and changes what the
\* calls returned.
Init ==
    /\ pc = "start"
    /\ edits = 0
    /\ loader \in LoadOutcomes
    /\ FLASK_ENV \in EnvFewValues
    /\ \E d \in Deployments :
          /\ CLIENT_NAME = d.CLIENT_NAME
          /\ TABLE_IDS = d.TABLE_IDS
          /\ ENABLED_SOURCES = d.ENABLED_SOURCES
    /\ DISABLED_SOURCES = TemplateDisabledSources
    /\ FRESH_TABLES = EmptyDict
    /\ AppConfig = NotImported
    /\ ret = NoRet

ConfigCalls ==
    \/ \E x \in TableIdArgs : CallGetTableConfig(x)
    \/ CallGetAllTableIds
    \/ CallGetConfig

Next ==
    \/ ImportConfig
    \/ Customize
    \/ \E e \in EnvFewValues : SetEnv(e)
    \/ ClientCalls
    \/ ConfigCalls
    \/ \E part \in CallerParts, v \in CallerValues : CallerModifies(part, v)

Spec == Init /\ [][Next]_vars

----------------------------------------------------------------------------
(* Properties *)

\* the elements of a list
Listed(lst) == {lst[i] : i \in 1..Len(lst)}

\* a table id is configured for s: the key is there and its value is neither
\* None nor '' nor 'null'
HasTableId(s) ==
    /\ s \in DOMAIN TABLE_IDS
    /\ TABLE_IDS[s] \notin {None, "", "null"}

\* C1: is_enabled(s) is true exactly when s is in ENABLED_SOURCES and
\* TABLE_IDS holds for s a value that is present, not the empty string and
\* not the string "null".
C1_IsEnabledIff ==
    ret.op = "is_enabled" =>
        (ret.val <=> (ret.arg \in Listed(ENABLED_SOURCES) /\ HasTableId(ret.arg)))

\* a listed source whose table id is "null" was asked for and is not enabled
C1_Witness ==
    /\ ret.op = "is_enabled"
    /\ ret.arg \in Listed(ENABLED_SOURCES)
    /\ DictGet(TABLE_IDS, ret.arg) = "null"
    /\ ret.val = FALSE

\* the per-source table of section 4.1: the suffix and the date field
SuffixOf(s) ==
    CASE s = "ghl"                  -> <<"G","H","L">>
      [] s = "pos"                  -> <<"P","O","S">>
      [] s = "google_ads"           -> <<"G","o","o","g","l","e"," ","A","d","s">>
      [] s = "meta_ads"             -> <<"M","e","t","a"," ","A","d","s">>
      [] s = "meta_ads_summary"     ->
            <<"M","e","t","a"," ","A","d","s"," ","S","u","m","m","a","r","y">>
      [] s = "meta_ads_simplified"  ->
            <<"M","e","t","a"," ","A","d","s"," ",
              "S","i","m","p","l","i","f","i","e","d">>
      [] s = "meta_ads_performance" ->
            <<"M","e","t","a"," ","A","d","s"," ",
              "P","e","r","f","o","r","m","a","n","c","e">>

DateFieldOf(s) ==
    CASE s = "ghl"                  -> "Date Created"
      [] s = "pos"                  -> "Created"
      [] s = "google_ads"           -> "Date"
      [] s = "meta_ads"             -> "Reporting ends"
      [] s = "meta_ads_summary"     -> "Reporting ends"
      [] s = "meta_ads_simplified"  -> "period"
      [] s = "meta_ads_performance" -> "Date"

SevenKeys == {"ghl", "pos", "google_ads", "meta_ads", "meta_ads_summary",
              "meta_ads_simplified", "meta_ads_performance"}

\* C2: get_fresh_tables() returns a mapping whose keys are exactly the keys
\* among the seven with is_enabled true, and the entry of s has id
\* TABLE_IDS[s], name CLIENT_NAME + " " + the suffix of s, the date field of
\* s and sort_direction 'desc'.
C2_FreshTablesExact ==
    ret.op = "get_fresh_tables" =>
        /\ Listed(ret.val.keys) = {s \in SevenKeys : is_enabled(s)}
        /\ DOMAIN ret.val.at = Listed(ret.val.keys)
        /\ \A s \in Listed(ret.val.keys) :
              ret.val.at[s] = [id             |-> TABLE_IDS[s],
                               name           |-> CLIENT_NAME \o <<" ">> \o SuffixOf(s),
                               date_field     |-> DateFieldOf(s),
                               sort_direction |-> "desc"]

\* a customized deployment: pos was given a table id and listed, and is in
\* the mapping with the two sources of the template
C2_Witness ==
    /\ ret.op = "get_fresh_tables"
    /\ ret.val.keys = <<"ghl", "pos", "google_ads">>
    /\ ret.val.at["pos"].id = "tblCustom"

\* C6: a source with is_enabled false appears neither as a key of
\* get_fresh_tables() nor in the enabled_tabs or enabled_sources lists of
\* get_client_config_for_frontend().
C6_SingleGate ==
    /\ ret.op = "get_fresh_tables" =>
          \A s \in AllKeys : ~is_enabled(s) => s \notin Listed(ret.val.keys)
    /\ ret.op = "get_client_config_for_frontend" =>
          \A s \in AllKeys : ~is_enabled(s) =>
              /\ s \notin Listed(ret.val.tab_configuration.enabled_tabs)
              /\ s \notin Listed(Deref(ret.val.data_sources.enabled_sources))

C8_GetTableId ==
    ret.op = "get_table_id" =>
        /\ HasTableId(ret.arg) => ret.val = TABLE_IDS[ret.arg]
        /\ ~HasTableId(ret.arg) => ret.val = None
        /\ is_enabled(ret.arg) => ret.val = TABLE_IDS[ret.arg] /\ ret.val # None

\* a table id is returned for a source that is not enabled
C8_Witness ==
    /\ ret.op = "get_table_id"
    /\ ret.val # None
    /\ ~is_enabled(ret.arg)

\* a and b are the same word up to the case of the letters of b, a lower-case
\* word
SameIgnoringCase(a, b) ==
    /\ Len(a) = Len(b)
    /\ \A i \in 1..Len(b) : a[i] = b[i] \/ a[i] = UpperChar(b[i])

\* the profile section 4.2 assigns to a FLASK_ENV entry
ProfileFor(e) ==
    IF e.set /\ SameIgnoringCase(e.value, EnvDevelopment) THEN "DevelopmentConfig"
    ELSE IF e.set /\ SameIgnoringCase(e.value, EnvTesting) THEN "TestConfig"
    ELSE "ProductionConfig"

\* C4: get_config() returns DevelopmentConfig for "development" and
\* TestConfig for "testing", compared case-insensitively, and
\* ProductionConfig for every other value and for an unset variable; the
\* same holds of the AppConfig the import of config.py sets.
C4_GetConfigTotal ==
    /\ ret.op = "get_config" => ret.val = ProfileFor(ret.arg)
    /\ pc = "running" => AppConfig = ProfileFor(FLASK_ENV)

\* get_config() was called under FLASK_ENV=DeVeLoPmEnT
C4_Witness ==
    /\ ret.op = "get_config"
    /\ ret.arg = EnvSet(<<"D","e","V","e","L","o","P","m","E","n","T">>)
    /\ ret.val = "DevelopmentConfig"

BaseOrigins == <<"http://localhost:3000", "http://localhost:8000",
                 "http://127.0.0.1:8000">>

\* C9: Development exposes debug true, DEBUG, 10000, 50 and the three Base
\* origins; Production debug false, INFO, 5000, 50 and two of the Base
\* origins; Testing debug true, WARNING, 100 and 5.
C9_ProfileOverrides ==
    ret.op = "getattr" =>
        LET cls == ret.arg.cls
            name == ret.arg.name
        IN  /\ cls = "DevelopmentConfig" =>
                /\ name = "DEBUG" => ret.val = TRUE
                /\ name = "LOG_LEVEL" => ret.val = "DEBUG"
                /\ name = "MAX_TOTAL_RECORDS" => ret.val = 10000
                /\ name = "MAX_PAGINATION_PAGES" => ret.val = 50
                /\ name = "CORS_ORIGINS" => ret.val = BaseOrigins
            /\ cls = "ProductionConfig" =>
                /\ name = "DEBUG" => ret.val = FALSE
                /\ name = "LOG_LEVEL" => ret.val = "INFO"
                /\ name = "MAX_TOTAL_RECORDS" => ret.val = 5000
                /\ name = "MAX_PAGINATION_PAGES" => ret.val = 50
                /\ name = "CORS_ORIGINS" =>
                      /\ Len(ret.val) = 2
                      /\ Listed(ret.val) \subseteq Listed(BaseOrigins)
            /\ cls = "TestConfig" =>
                /\ name = "DEBUG" => ret.val = TRUE
                /\ name = "LOG_LEVEL" => ret.val = "WARNING"
                /\ name = "MAX_TOTAL_RECORDS" => ret.val = 100
                /\ name = "MAX_PAGINATION_PAGES" => ret.val = 5

\* the production profile was selected and its MAX_TOTAL_RECORDS read
C9_Witness ==
    /\ ret.op = "getattr"
    /\ ret.arg = [cls |-> "ProductionConfig", name |-> "MAX_TOTAL_RECORDS"]
    /\ ret.val = 5000

\* C3: when ClientConfig cannot be had (not provided, not configured, or it
\* fails to load), building Config never raises and FRESH_TABLES is the
\* six-entry placeholder mapping.
C3_FallbackNeverRaises ==
    (loader # "loaded" /\ pc # "start") =>
        /\ pc = "running"
        /\ FRESH_TABLES.keys = <<"ghl", "pos", "meta_ads", "meta_ads_summary",
                                 "meta_ads_simplified", "google_ads">>
        /\ FRESH_TABLES.at["ghl"].id = "CLIENT_GHL_TABLE_ID"
        /\ FRESH_TABLES.at["pos"].id = "CLIENT_POS_TABLE_ID"
        /\ FRESH_TABLES.at["meta_ads"].id = "CLIENT_META_ADS_TABLE_ID"
        /\ FRESH_TABLES.at["meta_ads_summary"].id = "CLIENT_META_ADS_SUMMARY_TABLE_ID"
        /\ FRESH_TABLES.at["meta_ads_simplified"].id =
              "CLIENT_META_ADS_SIMPLIFIED_TABLE_ID"
        /\ FRESH_TABLES.at["google_ads"].id = "CLIENT_GOOGLE_ADS_TABLE_ID"

\* the ids of the active table mapping
ActiveIds == {FRESH_TABLES.at[k].id : k \in Listed(FRESH_TABLES.keys)}

\* C5: get_table_config(x) returns None when no entry of FRESH_TABLES has id
\* x; otherwise it returns the fields of an entry with id x, with type the
\* key of that entry and is_legacy false.
C5_GetTableConfig ==
    (ret.op = "get_table_config" /\ ~ret.modified) =>
        /\ ret.arg \notin ActiveIds => ret.none
        /\ ret.arg \in ActiveIds =>
              /\ ~ret.none
              /\ ret.val.type \in Listed(FRESH_TABLES.keys)
              /\ LET entry == FRESH_TABLES.at[ret.val.type]
                 IN  /\ entry.id = ret.arg
                     /\ ret.val.id = entry.id
                     /\ ret.val.name = entry.name
                     /\ ret.val.date_field = entry.date_field
                     /\ ret.val.sort_direction = entry.sort_direction
              /\ ret.val.is_legacy = FALSE
              /\ DOMAIN ret.val = {"id", "name", "date_field", "sort_direction",
                                   "type", "is_legacy"}

\* two entries have the id asked for, and the entry of ghl was returned
C5_Witness ==
    /\ ret.op = "get_table_config"
    /\ ~ret.none
    /\ ret.val.type = "ghl"
    /\ "pos" \in Listed(FRESH_TABLES.keys)
    /\ FRESH_TABLES.at["pos"].id = ret.arg

\* the limits of a profile
Limits(cls) ==
    <<GetAttr(cls, "MAX_RECORDS_PER_REQUEST"), GetAttr(cls, "MAX_TOTAL_RECORDS"),
      GetAttr(cls, "MAX_PAGINATION_PAGES")>>

\* C10: once config.py is imported, no later event changes the selected
\* profile, its limits or its active table mapping: not a change of
\* FLASK_ENV, not a change of ClientConfig's settings, not a call, and not a
\* caller changing a value that a call returned.
C10_ProfileImmutable ==
    [][pc = "running" =>
          /\ pc' = "running"
          /\ AppConfig' = AppConfig
          /\ Limits(AppConfig') = Limits(AppConfig)
          /\ FRESH_TABLES' = FRESH_TABLES]_vars

\* a caller has changed the dict get_table_config returned, and it differs
\* from the entry of FRESH_TABLES it was made from
C10_Witness ==
    /\ pc = "running"
    /\ ret.op = "get_table_config"
    /\ ret.modified
    /\ ret.val.id # FRESH_TABLES.at[ret.val.type].id

====
